---------------------------- MODULE Spec2Model ----------------------------
(***************************************************************************)
(* A model of the ElectionGuard key-ceremony core: election parameters,    *)
(* guardian public keys, the joint election public key (its computation,   *)
(* validation and encodings) and the command-line loaders.                 *)
(*                                                                         *)
(* BigUint values are naturals.  The standard groups are 4096 bits wide,   *)
(* which TLC cannot evaluate, so the group used here is a small one of the *)
(* same shape: p = q*r + 1 with p, q prime and g of order q.  Its modulus  *)
(* is two bytes wide, so that the fixed-length encoding has to pad.        *)
(***************************************************************************)
EXTENDS Integers, Sequences, FiniteSets, TLC

VARIABLES
    election_parameters,   \* compute's and the readers' &ElectionParameters
    guardian_public_keys,  \* compute's &[GuardianPublicKey], as collected so far
    joint_result,          \* what JointElectionPublicKey::compute returned
    varying_parameters,    \* a VaryingParameters value (&self)
    varying_call,          \* the last call on varying_parameters and its result
    joint_key,             \* a JointElectionPublicKey value (its BigUint)
    stdio,                 \* the byte stream written to and read from
    read_result,           \* what from_stdioread_validated(stdio) returned
    bytes_result,          \* what joint_key.to_be_bytes_len_p returned
    artifact_file,         \* the election parameters file of the artifacts dir
    load_result,           \* what load_election_parameters returned
    artifacts_dir,         \* the key files: file name -> content
    key_call,              \* the last call of a guardian key loader
    key_result,            \* what that call returned
    subcommand,            \* self of GuardianSecretKeyGenerate::do_it
    written,               \* the artifacts written by do_it, in order
    do_it_result,          \* what do_it returned
    STANDARD_PARAMETERS,   \* the lazy static: its value once initialised
    accesses               \* the values obtained from it and the factories

compute_vars == <<election_parameters, guardian_public_keys, joint_result>>
varying_vars == <<varying_parameters, varying_call>>
codec_vars == <<joint_key, stdio, read_result, bytes_result>>
load_vars == <<artifact_file, load_result>>
key_vars == <<artifacts_dir, key_call, key_result>>
keygen_vars == <<subcommand, written, do_it_result>>
standard_vars == <<STANDARD_PARAMETERS, accesses>>
tool_vars == <<key_vars, keygen_vars, standard_vars>>
vars == <<compute_vars, varying_vars, codec_vars, load_vars, tool_vars>>

(***************************************************************************)
(* Bounds of the model.                                                    *)
(***************************************************************************)
\* Largest guardian count n of the election parameters (compute harness).
MaxN == 3
\* Largest number of guardian public keys handed to compute.
MaxKeys == 3
\* Largest guardian count for which VaryingParameters is exercised.
MaxGuardians == 50
\* Largest integer wrapped in a JointElectionPublicKey (the modulus is 263).
MaxJointKey == 300

(***************************************************************************)
(* Result<T>: Ok(value) or an error.  An error carries its kind and the    *)
(* numbers its message shows; it carries no value.                         *)
(***************************************************************************)
Ok(v) == [kind |-> "Ok", value |-> <<v>>, named |-> <<>>]
Err(kind, named) == [kind |-> kind, value |-> <<>>, named |-> named]
NotCalled == [kind |-> "NotCalled", value |-> <<>>, named |-> <<>>]

(***************************************************************************)
(* Arithmetic of num_bigint::BigUint.                                      *)
(***************************************************************************)
RECURSIVE ModPow(_, _, _)
\* BigUint::modpow(exponent, modulus): self^exponent mod modulus.
ModPow(b, e, m) ==
    IF e = 0 THEN 1 % m
    ELSE LET h == ModPow(b, e \div 2, m)
             s == (h * h) % m
         IN IF e % 2 = 1 THEN (s * (b % m)) % m ELSE s

(***************************************************************************)
(* FixedParameters: the group.  p = 263 = 131*2 + 1, g = 4 has order 131.  *)
(***************************************************************************)
toy_parameters ==
    [generation_parameters |-> [q_bits_total |-> 8, p_bits_total |-> 9],
     p |-> 263, q |-> 131, r |-> 2, g |-> 4]

\* FixedParameters::is_valid_modp: membership of the order-q subgroup mod p.
is_valid_modp(fixed_parameters, x) ==
    /\ 1 <= x
    /\ x < fixed_parameters.p
    /\ ModPow(x, fixed_parameters.q, fixed_parameters.p) = 1

(***************************************************************************)
(* VaryingParameters.                                                      *)
(***************************************************************************)
\* A validate that demands k < n.
VaryingParameters_validate_strict_k(self) ==
    IF ~(1 <= self.n) THEN Err("Varying parameters failed check: 1 <= n", <<>>)
    ELSE IF ~(1 <= self.k)
    THEN Err("Varying parameters failed check: 1 <= k", <<>>)
    ELSE IF ~(self.k < self.n)
    THEN Err("Varying parameters failed check: k <= n", <<>>)
    ELSE Ok("()")
\* VaryingParameters::validate: 1 <= n, then 1 <= k, then k <= n.
VaryingParameters_validate(self) ==
    IF ~(1 <= self.n) THEN Err("Varying parameters failed check: 1 <= n", <<>>)
    ELSE IF ~(1 <= self.k)
    THEN Err("Varying parameters failed check: 1 <= k", <<>>)
    ELSE IF ~(self.k <= self.n)
    THEN Err("Varying parameters failed check: k <= n", <<>>)
    ELSE Ok("()")

\* A range check that excludes n.
is_valid_guardian_i_exclusive(self, i) == 1 <= i /\ i < self.n
\* VaryingParameters::is_valid_guardian_i: (1usize..=n).contains(&i).
is_valid_guardian_i(self, i) == i \in 1..self.n

(***************************************************************************)
(* GuardianPublicKey: the 1-based index i (a NonZeroU16) and the group     *)
(* elements of the key; public_key_k0 is the first of them.                *)
(***************************************************************************)
public_key_k0(guardian_public_key) ==
    guardian_public_key.coefficient_commitments[1]

\* GuardianPublicKey::validate: 1 <= i <= n, every element in the subgroup.
GuardianPublicKey_validate(guardian_public_key, ep) ==
    /\ is_valid_guardian_i(ep.varying_parameters, guardian_public_key.i)
    /\ \A j \in DOMAIN guardian_public_key.coefficient_commitments :
          is_valid_modp(ep.fixed_parameters,
                        guardian_public_key.coefficient_commitments[j])

(***************************************************************************)
(* JointElectionPublicKey::compute                                         *)
(***************************************************************************)
\* A compute without the validation loop.
first_invalid_none(ep, keys) == 0
\* Lines 38-40: the position of the first key that fails validate, 0 if none.
first_invalid(ep, keys) ==
    LET bad == {j \in DOMAIN keys : ~GuardianPublicKey_validate(keys[j], ep)}
    IN IF bad = {} THEN 0 ELSE CHOOSE j \in bad : \A l \in bad : j <= l

RECURSIVE seen_loop(_, _, _)
\* A loop that marks the slots without looking whether one is marked already.
seen_loop_no_duplicate_check(keys, j, seen) ==
    IF \E l \in DOMAIN keys : keys[l].i - 1 \notin DOMAIN seen
    THEN [kind |-> "panic", i |-> 0, seen |-> seen]
    ELSE [kind |-> "done", i |-> 0,
          seen |-> [ix \in DOMAIN seen |->
                       \E l \in DOMAIN keys : keys[l].i - 1 = ix]]
\* Lines 43-55: mark each key's slot i-1 of `seen`, from key j on; stop at a
\* marked slot.  Indexing past the vector panics.
seen_loop(keys, j, seen) ==
    IF j > Len(keys) THEN [kind |-> "done", i |-> 0, seen |-> seen]
    ELSE LET seen_ix == keys[j].i - 1
         IN IF seen_ix \notin DOMAIN seen
            THEN [kind |-> "panic", i |-> keys[j].i, seen |-> seen]
            ELSE IF seen[seen_ix]
            THEN [kind |-> "duplicate", i |-> keys[j].i, seen |-> seen]
            ELSE seen_loop(keys, j + 1, [seen EXCEPT ![seen_ix] = TRUE])

RECURSIVE seen_indexed_from(_, _, _)
\* Lines 46-54: the slots at which the loop indexes `seen`, from key j on:
\* each key's i-1, up to and including the one at which the loop stops.
seen_indexed_from(keys, j, seen) ==
    IF j > Len(keys) THEN {}
    ELSE LET seen_ix == keys[j].i - 1
         IN {seen_ix}
            \cup (IF seen_ix \notin DOMAIN seen \/ seen[seen_ix] THEN {}
                  ELSE seen_indexed_from(keys, j + 1,
                                         [seen EXCEPT ![seen_ix] = TRUE]))

\* Lines 37-55: the slots of `seen` that a call of compute indexes; none when
\* the validation loop returns first.
seen_indexed(ep, keys) ==
    IF first_invalid(ep, keys) # 0 THEN {}
    ELSE seen_indexed_from(keys, 1,
                           [ix \in 0..(ep.varying_parameters.n - 1) |-> FALSE])

RECURSIVE ascending(_, _, _)
\* The elements of S within lo..hi, in ascending order.
ascending(S, lo, hi) ==
    IF lo > hi THEN <<>>
    ELSE IF lo \in S THEN <<lo>> \o ascending(S, lo + 1, hi)
    ELSE ascending(S, lo + 1, hi)

\* Lines 57-62: the 0-based slots of `seen` left unmarked, ascending.
missing_guardian_ixs(seen, n) ==
    ascending({ix \in DOMAIN seen : ~seen[ix]}, 0, n - 1)

\* Lines 67-74: the lazy iterator `iter`.  Its items would be the 1-based
\* guardian numbers ix + 1, each after the first prefixed by ", ".
iter_items(ixs) == [m \in DOMAIN ixs |-> ixs[m] + 1]

\* Line 76: bail!("Guardian(s) {iter:?} are not represented ...").  {:?} of a
\* Map<Enumerate<slice::Iter>> formats the adapter, not its items: the closure
\* never runs and the numbers shown are those of the underlying slice,
\* Map { iter: Enumerate { iter: Iter([ixs]), count: 0 } }.
debug_format_iter(ixs) == ixs

RECURSIVE fold(_, _, _, _)
\* The product of the keys' elements, the usual combination of public keys.
fold_step_product(acc, public_key, p) ==
    (acc * public_key_k0(public_key)) % p
\* A combination that depends on the order of the keys.
fold_step_affine(acc, public_key, p) ==
    (2 * acc + public_key_k0(public_key)) % p
\* Lines 81-83: the closure |acc, public_key| acc.modpow(public_key.k0, p).
fold_step(acc, public_key, p) == ModPow(acc, public_key_k0(public_key), p)
\* Lines 79-83: the fold over the keys from key j on, in input order.
fold(keys, j, acc, p) ==
    IF j > Len(keys) THEN acc
    ELSE fold(keys, j + 1, fold_step(acc, keys[j], p), p)

\* A compute that validates the keys and combines them, complete or not.
compute_skip_completeness(ep, keys) ==
    IF first_invalid(ep, keys) # 0
    THEN Err("validate", <<first_invalid(ep, keys)>>)
    ELSE Ok(fold(keys, 1, 1, ep.fixed_parameters.p))
\* A compute that looks for missing guardians before it looks for repeated ones.
compute_missing_first(ep, keys) ==
    LET n == ep.varying_parameters.n
        bad == first_invalid(ep, keys)
        present == [ix \in 0..(n - 1) |->
                       \E l \in DOMAIN keys : keys[l].i - 1 = ix]
        missing == missing_guardian_ixs(present, n)
        marked == seen_loop(keys, 1, [ix \in 0..(n - 1) |-> FALSE])
    IN IF bad # 0 THEN Err("validate", <<bad>>)
       ELSE IF missing # <<>> THEN Err("missing", debug_format_iter(missing))
       ELSE IF marked.kind = "duplicate" THEN Err("duplicate", <<marked.i>>)
       ELSE Ok(fold(keys, 1, 1, ep.fixed_parameters.p))
\* Lines 29-86: validate every key, mark the slots, report the unmarked
\* ones, fold.
compute(ep, keys) ==
    LET fixed_parameters == ep.fixed_parameters
        n == ep.varying_parameters.n
        bad == first_invalid(ep, keys)
        marked == seen_loop(keys, 1, [ix \in 0..(n - 1) |-> FALSE])
        missing == missing_guardian_ixs(marked.seen, n)
    IN IF bad # 0 THEN Err("validate", <<bad>>)
       ELSE IF marked.kind = "panic" THEN Err("panic", <<marked.i>>)
       ELSE IF marked.kind = "duplicate" THEN Err("duplicate", <<marked.i>>)
       ELSE IF missing # <<>> THEN Err("missing", debug_format_iter(missing))
       ELSE Ok(fold(keys, 1, 1, fixed_parameters.p))


(***************************************************************************)
(* The encodings of a JointElectionPublicKey.  A stream is a sequence of   *)
(* characters; a byte array is a sequence of numbers in 0..255.            *)
(***************************************************************************)
HexDigitsUpper ==
    <<"0", "1", "2", "3", "4", "5", "6", "7",
      "8", "9", "A", "B", "C", "D", "E", "F">>
HexDigitsLower ==
    <<"0", "1", "2", "3", "4", "5", "6", "7",
      "8", "9", "a", "b", "c", "d", "e", "f">>

RECURSIVE to_str_radix_16(_)
\* The upper-case hexadecimal digits of u, without leading zeros ("0" for 0).
to_str_radix_16(u) ==
    IF u < 16 THEN <<HexDigitsUpper[u + 1]>>
    ELSE to_str_radix_16(u \div 16) \o <<HexDigitsUpper[(u % 16) + 1]>>

\* The value of one hexadecimal digit of either case, -1 for another character.
hex_digit_value(c) ==
    IF \E d \in 1..16 : HexDigitsUpper[d] = c
    THEN (CHOOSE d \in 1..16 : HexDigitsUpper[d] = c) - 1
    ELSE IF \E d \in 1..16 : HexDigitsLower[d] = c
    THEN (CHOOSE d \in 1..16 : HexDigitsLower[d] = c) - 1
    ELSE -1

RECURSIVE from_str_radix_16(_, _)
\* BigUint::from_str_radix(s, 16) on digits s, continuing from the value acc.
from_str_radix_16(s, acc) ==
    IF s = <<>> THEN acc
    ELSE from_str_radix_16(Tail(s), 16 * acc + hex_digit_value(Head(s)))

\* util::biguint_serde::biguint_serialize: the integer as a JSON string.
biguint_serialize(u) == <<"\"">> \o to_str_radix_16(u) \o <<"\"">>

\* util::biguint_serde::biguint_deserialize on the contents of a JSON string.
biguint_deserialize(text) ==
    IF text = <<>> \/ \E j \in DOMAIN text : hex_digit_value(text[j]) = -1
    THEN Err("invalid digit", <<>>)
    ELSE Ok(from_str_radix_16(text, 0))

JsonWhitespace == {" ", "\n"}

RECURSIVE skip_whitespace(_)
skip_whitespace(s) ==
    IF s # <<>> /\ Head(s) \in JsonWhitespace THEN skip_whitespace(Tail(s))
    ELSE s

\* serde_json::from_reader::<JointElectionPublicKey>: one JSON string, with
\* whitespace allowed around it and nothing else after it.
serde_json_from_reader(stdioread) ==
    LET t == skip_whitespace(stdioread)
    IN IF t = <<>> THEN Err("EOF while parsing a value", <<>>)
       ELSE IF Head(t) # "\"" THEN Err("invalid type, expected a string", <<>>)
       ELSE LET body == Tail(t)
                quotes == {j \in DOMAIN body : body[j] = "\""}
            IN IF quotes = {} THEN Err("EOF while parsing a string", <<>>)
               ELSE LET close == CHOOSE j \in quotes : \A l \in quotes : j <= l
                        text == SubSeq(body, 1, close - 1)
                        rest == SubSeq(body, close + 1, Len(body))
                    IN IF \E j \in DOMAIN text : text[j] = "\n"
                       THEN Err("control character while parsing a string", <<>>)
                       ELSE IF skip_whitespace(rest) # <<>>
                       THEN Err("trailing characters", <<>>)
                       ELSE biguint_deserialize(text)

\* JointElectionPublicKey::validate
JointElectionPublicKey_validate(self, ep) ==
    IF ~is_valid_modp(ep.fixed_parameters, self)
    THEN Err("JointElectionPublicKey is not valid mod p", <<>>)
    ELSE Ok("()")

\* A reader that returns what it parsed without validating it.
from_stdioread_unvalidated(stdioread, ep) ==
    IF serde_json_from_reader(stdioread).kind # "Ok"
    THEN Err("Reading JointElectionPublicKey", <<>>)
    ELSE serde_json_from_reader(stdioread)
\* JointElectionPublicKey::from_stdioread_validated
from_stdioread_validated(stdioread, ep) ==
    LET parsed == serde_json_from_reader(stdioread)
    IN IF parsed.kind # "Ok" THEN Err("Reading JointElectionPublicKey", <<>>)
       ELSE LET self_ == parsed.value[1]
                validated == JointElectionPublicKey_validate(self_, ep)
            IN IF validated.kind # "Ok" THEN validated ELSE Ok(self_)

\* A writer that leaves out the final newline.
to_stdiowrite_no_newline(self, stdiowrite) ==
    stdiowrite \o biguint_serialize(self)
\* JointElectionPublicKey::to_stdiowrite: what the stream holds afterwards.
to_stdiowrite(self, stdiowrite) ==
    stdiowrite \o biguint_serialize(self) \o <<"\n">>

RECURSIVE to_bytes_be(_)
\* BigUint::to_bytes_be: big-endian, no leading zero byte ([0] for 0).
to_bytes_be(u) ==
    IF u < 256 THEN <<u>> ELSE to_bytes_be(u \div 256) \o <<u % 256>>

\* FixedParameters::biguint_to_be_bytes_len_p: left-padded with zero bytes to
\* the number of bytes of p.
biguint_to_be_bytes_len_p(fixed_parameters, u) ==
    LET len_p == Len(to_bytes_be(fixed_parameters.p))
        bytes == to_bytes_be(u)
    IN IF Len(bytes) >= len_p THEN bytes
       ELSE [j \in 1..(len_p - Len(bytes)) |-> 0] \o bytes

\* An encoding without the padding.
to_be_bytes_len_p_unpadded(self, fixed_parameters) == to_bytes_be(self)
\* JointElectionPublicKey::to_be_bytes_len_p
to_be_bytes_len_p(self, fixed_parameters) ==
    biguint_to_be_bytes_len_p(fixed_parameters, self)

(***************************************************************************)
(* ElectionParameters: validation, decoding and the loader.                *)
(***************************************************************************)
\* Primality, exactly (the code's test errs with negligible probability).
is_prime(x) == x >= 2 /\ \A d \in 2..(x - 1) : x % d # 0

\* BigUint::bits: the least b with x < 2^b.
bits(x) == CHOOSE b \in 0..16 : x < 2 ^ b /\ (b = 0 \/ x >= 2 ^ (b - 1))

\* FixedParameters::validate: the first failing check decides the error.
FixedParameters_validate(self) ==
    IF ~is_prime(self.p) THEN Err("p is not prime", <<>>)
    ELSE IF ~is_prime(self.q) THEN Err("q is not prime", <<>>)
    ELSE IF bits(self.p) # self.generation_parameters.p_bits_total
    THEN Err("p has the wrong number of bits", <<>>)
    ELSE IF bits(self.q) # self.generation_parameters.q_bits_total
    THEN Err("q has the wrong number of bits", <<>>)
    ELSE IF ~(2 <= self.g /\ self.g <= self.p - 2)
    THEN Err("g is out of range", <<>>)
    ELSE IF ModPow(self.g, self.q, self.p) # 1
    THEN Err("g^q mod p is not 1", <<>>)
    ELSE IF self.g = 1 THEN Err("g is 1", <<>>)
    ELSE IF self.p # self.q * self.r + 1 THEN Err("p is not q*r + 1", <<>>)
    ELSE Ok("()")

\* ElectionParameters::validate: the fixed, then the varying parameters.
ElectionParameters_validate(self) ==
    IF FixedParameters_validate(self.fixed_parameters).kind # "Ok"
    THEN FixedParameters_validate(self.fixed_parameters)
    ELSE VaryingParameters_validate(self.varying_parameters)

\* The tokens of an election parameters file: numbers, strings, braces.
Number(x) == [token |-> "number", number |-> x, string |-> ""]
String(x) == [token |-> "string", number |-> 0, string |-> x]
Brace(x) == [token |-> "brace", number |-> 0, string |-> x]

\* Whether a token is a number that fits a u16.
is_u16(t) == t.token = "number" /\ t.number \in 0..65535

\* ElectionParameters::from_bytes: decodes, and validates nothing.  The bytes
\* are the file's tokens: an opening brace, the ten fields in the order they
\* are written, a closing brace.
ElectionParameters_from_bytes(bytes) ==
    IF \/ Len(bytes) # 12
       \/ bytes[1] # Brace("{")
       \/ bytes[12] # Brace("}")
       \/ \E j \in 2..3 : ~is_u16(bytes[j])
       \/ \E j \in 4..7 : bytes[j].token # "number"
       \/ \E j \in 8..9 : ~is_u16(bytes[j])
       \/ \E j \in 10..11 : bytes[j].token # "string"
    THEN Err("Parsing ElectionParameters", <<>>)
    ELSE Ok([fixed_parameters |->
                 [generation_parameters |->
                      [q_bits_total |-> bytes[2].number,
                       p_bits_total |-> bytes[3].number],
                  p |-> bytes[4].number, q |-> bytes[5].number,
                  r |-> bytes[6].number, g |-> bytes[7].number],
             varying_parameters |->
                 [n |-> bytes[8].number, k |-> bytes[9].number,
                  date |-> bytes[10].string, info |-> bytes[11].string]])

\* A loader that returns what from_bytes decoded without validating it.
load_election_parameters_unvalidated(file) ==
    IF file.state = "absent" THEN Err("Couldn't open file", <<>>)
    ELSE IF file.state = "unreadable"
    THEN Err("Couldn't read from election parameters file", <<>>)
    ELSE ElectionParameters_from_bytes(file.bytes)
\* load_election_parameters.  The artifact file is absent, or present and
\* either failing when read or holding bytes.
load_election_parameters(file) ==
    IF file.state = "absent" THEN Err("Couldn't open file", <<>>)
    ELSE IF file.state = "unreadable"
    THEN Err("Couldn't read from election parameters file", <<>>)
    ELSE LET decoded == ElectionParameters_from_bytes(file.bytes)
         IN IF decoded.kind # "Ok" THEN decoded
            ELSE LET election_parameters_ == decoded.value[1]
                     validated == ElectionParameters_validate(election_parameters_)
                 IN IF validated.kind # "Ok" THEN validated
                    ELSE Ok(election_parameters_)

(***************************************************************************)
(* The callers of compute: a caller holds election parameters, collects    *)
(* guardian public keys in any order, and calls compute on what it holds.  *)
(***************************************************************************)
\* Key material: two valid single elements, an element that is not below p,
\* and a key whose second element is below p but outside the subgroup.
KeyMaterials == {<<4>>, <<256>>, <<263>>, <<4, 262>>}

\* NonZeroU16 indices, one past the largest n included.
GuardianKeys ==
    [i : 1..(MaxN + 1), coefficient_commitments : KeyMaterials]

ComputeParameters ==
    {[fixed_parameters |-> toy_parameters,
      varying_parameters |-> [n |-> n, k |-> n, date |-> "", info |-> ""]] :
        n \in 0..MaxN}

\* The values of the variables that a specification leaves aside.
NoVarying == varying_parameters = "none" /\ varying_call = NotCalled
NoCompute ==
    /\ election_parameters = "none"
    /\ guardian_public_keys = <<>>
    /\ joint_result = NotCalled
NoLoad == artifact_file = "none" /\ load_result = NotCalled
\* No key loader was called.
NoKeyCall == [fn |-> "none", opt_i |-> <<>>, opt_path |-> <<>>]
NoKeyLoad ==
    /\ artifacts_dir = "none"
    /\ key_call = NoKeyCall
    /\ key_result = NotCalled
NoKeygen ==
    /\ subcommand = "none"
    /\ written = <<>>
    /\ do_it_result = NotCalled
NoStandard ==
    /\ STANDARD_PARAMETERS = [state |-> "none", value |-> <<>>]
    /\ accesses = <<>>
NoCodec ==
    /\ joint_key = "none"
    /\ stdio = <<>>
    /\ read_result = NotCalled
    /\ bytes_result = NotCalled

InitCompute ==
    /\ election_parameters \in ComputeParameters
    /\ guardian_public_keys = <<>>
    /\ joint_result = NotCalled
    /\ NoVarying
    /\ NoCodec
    /\ NoLoad
    /\ NoKeyLoad
    /\ NoKeygen
    /\ NoStandard

\* The caller obtains one more guardian public key.
Collect ==
    /\ Len(guardian_public_keys) < MaxKeys
    /\ \E key \in GuardianKeys :
          guardian_public_keys' = Append(guardian_public_keys, key)
    /\ joint_result' = NotCalled
    /\ UNCHANGED <<election_parameters, varying_vars, tool_vars,
                   codec_vars, load_vars>>

\* JointElectionPublicKey::compute(&election_parameters, &guardian_public_keys)
CallCompute ==
    /\ joint_result' = compute(election_parameters, guardian_public_keys)
    /\ UNCHANGED <<election_parameters, guardian_public_keys, varying_vars, tool_vars,
                   codec_vars, load_vars>>

NextCompute == Collect \/ CallCompute

SpecCompute == InitCompute /\ [][NextCompute]_vars

(***************************************************************************)
(* The callers of VaryingParameters: a value with any u16 n and k and any  *)
(* strings, on which validate and is_valid_guardian_i are called.          *)
(***************************************************************************)
VaryingParameterValues ==
    [n : 0..(MaxGuardians + 1), k : 0..(MaxGuardians + 2),
     date : {"", "2023-05-02"}, info : {"", "The United Realms of Imaginaria"}]

\* A call on &self: the operation, its argument and what it returned.
VaryingCall(op, i, ret) == [kind |-> op, value |-> <<i>>, named |-> <<ret>>]

InitVarying ==
    /\ varying_parameters \in VaryingParameterValues
    /\ varying_call = NotCalled
    /\ NoCompute
    /\ NoCodec
    /\ NoLoad
    /\ NoKeyLoad
    /\ NoKeygen
    /\ NoStandard

\* varying_parameters.validate()
CallValidate ==
    /\ varying_call' =
          VaryingCall("validate", 0, VaryingParameters_validate(varying_parameters))
    /\ UNCHANGED <<varying_parameters, compute_vars, tool_vars,
                   codec_vars, load_vars>>

\* varying_parameters.is_valid_guardian_i(i), for i up to one past n and for
\* the largest u16.
CallIsValidGuardianI ==
    /\ \E i \in (0..(varying_parameters.n + 1)) \cup {65535} :
          varying_call' =
              VaryingCall("is_valid_guardian_i", i,
                          is_valid_guardian_i(varying_parameters, i))
    /\ UNCHANGED <<varying_parameters, compute_vars, tool_vars,
                   codec_vars, load_vars>>

NextVarying == CallValidate \/ CallIsValidGuardianI

SpecVarying == InitVarying /\ [][NextVarying]_vars

(***************************************************************************)
(* The users of the encodings: a program holds a joint key (any integer,   *)
(* the field is public) and a stream that it writes the key to or that     *)
(* came from elsewhere, reads the stream back, and encodes the key.        *)
(***************************************************************************)
CodecParameters ==
    [fixed_parameters |-> toy_parameters,
     varying_parameters |-> [n |-> 3, k |-> 2, date |-> "", info |-> ""]]

\* Streams that are not one JSON string of hexadecimal digits.
MalformedStreams ==
    {<<>>,
     <<"\n">>,
     <<"4", "\n">>,
     <<"\"", "4">>,
     <<"\"", "\"", "\n">>,
     <<"\"", "G", "\"", "\n">>,
     <<"\"", "4", "\n", "\"">>,
     <<"\"", "4", "\"", "4", "\n">>,
     <<"{", "\"", "4", "\"", "}">>}

\* Streams written by other means, each with the integer it denotes: no
\* final newline, lower case, leading zeros, surrounding whitespace.
ForeignStreams ==
    {[text |-> <<"\"", "4", "\"">>, value |-> 4],
     [text |-> <<"\"", "1", "a", "\"", "\n">>, value |-> 26],
     [text |-> <<" ", "\"", "0", "0", "B", "\"", " ", "\n">>, value |-> 11],
     [text |-> <<"\"", "0", "a", "\"", "\n">>, value |-> 10],
     [text |-> <<"\"", "1", "0", "7", "\"">>, value |-> 263],
     [text |-> <<"\n", "\"", "f", "F", "f", "\"">>, value |-> 4095]}

InitCodec ==
    /\ election_parameters = CodecParameters
    /\ joint_key \in 0..MaxJointKey
    /\ stdio = <<>>
    /\ read_result = NotCalled
    /\ bytes_result = NotCalled
    /\ guardian_public_keys = <<>>
    /\ joint_result = NotCalled
    /\ NoVarying
    /\ NoLoad
    /\ NoKeyLoad
    /\ NoKeygen
    /\ NoStandard

\* The stream is one that something else produced.
Receive ==
    /\ \E s \in MalformedStreams \cup {f.text : f \in ForeignStreams} :
          stdio' = s
    /\ read_result' = NotCalled
    /\ UNCHANGED <<joint_key, bytes_result, compute_vars, tool_vars,
                   varying_vars,
                   load_vars>>

\* joint_key.to_stdiowrite(&mut stdio) on a new, empty stream.
Write ==
    /\ stdio' = to_stdiowrite(joint_key, <<>>)
    /\ read_result' = NotCalled
    /\ UNCHANGED <<joint_key, bytes_result, compute_vars, tool_vars,
                   varying_vars,
                   load_vars>>

\* JointElectionPublicKey::from_stdioread_validated(&mut stdio, &ep)
Read ==
    /\ read_result' = from_stdioread_validated(stdio, election_parameters)
    /\ UNCHANGED <<joint_key, stdio, bytes_result, compute_vars, tool_vars,
                   varying_vars,
                   load_vars>>

\* joint_key.to_be_bytes_len_p(&fixed_parameters)
ToBytes ==
    /\ bytes_result' =
          Ok(to_be_bytes_len_p(joint_key, election_parameters.fixed_parameters))
    /\ UNCHANGED <<joint_key, stdio, read_result, compute_vars, tool_vars,
                   varying_vars,
                   load_vars>>

NextCodec == Receive \/ Write \/ Read \/ ToBytes

SpecCodec == InitCodec /\ [][NextCodec]_vars

(***************************************************************************)
(* The subcommands that load the election parameters: the artifacts dir    *)
(* holds whatever an earlier step, or anyone else, left there.             *)
(***************************************************************************)
\* Groups a file may describe: the valid one, and ones that each break one
\* check (p composite, wrong bit count, g = 1, g of order 2q, wrong cofactor).
FileFixedParameters ==
    {toy_parameters,
     [toy_parameters EXCEPT !.p = 265],
     [toy_parameters EXCEPT !.generation_parameters.p_bits_total = 10],
     [toy_parameters EXCEPT !.g = 1],
     [toy_parameters EXCEPT !.g = 5],
     [toy_parameters EXCEPT !.r = 3]}

FileVaryingParameters ==
    [n : 0..MaxN, k : 0..(MaxN + 1), date : {"2023-05-02"}, info : {""}]

\* The tokens of the file that holds ep.
file_bytes(ep) ==
    <<Brace("{"),
      Number(ep.fixed_parameters.generation_parameters.q_bits_total),
      Number(ep.fixed_parameters.generation_parameters.p_bits_total),
      Number(ep.fixed_parameters.p), Number(ep.fixed_parameters.q),
      Number(ep.fixed_parameters.r), Number(ep.fixed_parameters.g),
      Number(ep.varying_parameters.n), Number(ep.varying_parameters.k),
      String(ep.varying_parameters.date), String(ep.varying_parameters.info),
      Brace("}")>>

\* Files that do not decode: empty, cut short, a field of the wrong type.
MalformedFiles ==
    {<<>>,
     <<Brace("{"), Number(8), Number(9), Number(263), Number(131), Number(2),
       Number(4), Number(3)>>,
     <<Brace("{"), Number(8), Number(9), Number(263), Number(131), Number(2),
       Number(4), String("three"), Number(2), String(""), String(""),
       Brace("}")>>,
     <<Brace("{"), Number(8), Number(9), Number(263), Number(131), Number(2),
       Number(4), Number(3), Number(65536), String(""), String(""),
       Brace("}")>>}

ArtifactFiles ==
    {[state |-> "absent", bytes |-> <<>>]}
    \cup {[state |-> st, bytes |-> b] :
             st \in {"unreadable", "readable"},
             b \in MalformedFiles
                   \cup {file_bytes([fixed_parameters |-> fp,
                                     varying_parameters |-> vp]) :
                            fp \in FileFixedParameters,
                            vp \in FileVaryingParameters}}

InitLoad ==
    /\ artifact_file \in ArtifactFiles
    /\ load_result = NotCalled
    /\ NoCompute
    /\ NoVarying
    /\ NoCodec
    /\ NoKeyLoad
    /\ NoKeygen
    /\ NoStandard

\* load_election_parameters(&artifacts_dir, &mut csprng)
Load ==
    /\ load_result' = load_election_parameters(artifact_file)
    /\ UNCHANGED <<artifact_file, compute_vars, tool_vars,
                   varying_vars, codec_vars>>

\* Another step of the ceremony replaces the file.
Replace ==
    /\ artifact_file' \in ArtifactFiles
    /\ load_result' = NotCalled
    /\ UNCHANGED <<compute_vars, tool_vars, varying_vars, codec_vars>>

NextLoad == Load \/ Replace

SpecLoad == InitLoad /\ [][NextLoad]_vars

(***************************************************************************)
(* common_utils.rs: load_guardian_secret_key and load_guardian_public_key. *)
(* A key file is absent, malformed, or the text of a public or a secret    *)
(* key with its own guardian number i and key material.                    *)
(***************************************************************************)
\* Option<T>
None == <<>>
Some(x) == <<x>>

\* The names under which the artifacts directory finds a file: a path given
\* on the command line, or ArtifactFile::Guardian{Public,Secret}Key(i).
PathFile == [kind |-> "path", i |-> 0]
ArtifactFile_GuardianPublicKey(i) == [kind |-> "public", i |-> i]
ArtifactFile_GuardianSecretKey(i) == [kind |-> "secret", i |-> i]

AbsentFile == [state |-> "absent", kind |-> "", i |-> 0, material |-> <<>>]
MalformedFile ==
    [state |-> "malformed", kind |-> "", i |-> 0, material |-> <<>>]
KeyFile(kind, i, material) ==
    [state |-> "key", kind |-> kind, i |-> i, material |-> material]

\* ArtifactsDir::in_file_stdioread: the file at the path when one is given,
\* else the artifact file; an error when it cannot be opened.
in_file_stdioread(dir, opt_path, opt_artifact_file) ==
    IF opt_path = None /\ opt_artifact_file = None THEN Err("open", <<>>)
    ELSE LET name == IF opt_path # None THEN PathFile
                     ELSE opt_artifact_file[1]
         IN IF dir[name].state = "absent" THEN Err("open", <<>>)
            ELSE Ok(dir[name])

\* GuardianPublicKey::from_stdioread_validated: deserialize (i is a
\* NonZeroU16), then validate against the election parameters.
GuardianPublicKey_from_stdioread_validated(stdioread, ep) ==
    IF stdioread.state # "key" \/ stdioread.kind # "public" \/ stdioread.i = 0
    THEN Err("deserialize", <<>>)
    ELSE LET key == [i |-> stdioread.i,
                     coefficient_commitments |-> stdioread.material]
         IN IF GuardianPublicKey_validate(key, ep) THEN Ok(key)
            ELSE Err("validate", <<>>)

\* GuardianSecretKey::validate: 1 <= i <= n, every coefficient below q.
GuardianSecretKey_validate(guardian_secret_key, ep) ==
    /\ is_valid_guardian_i(ep.varying_parameters, guardian_secret_key.i)
    /\ \A j \in DOMAIN guardian_secret_key.secret_coefficients :
          guardian_secret_key.secret_coefficients[j] < ep.fixed_parameters.q

\* GuardianSecretKey::from_stdioread_validated
GuardianSecretKey_from_stdioread_validated(stdioread, ep) ==
    IF stdioread.state # "key" \/ stdioread.kind # "secret" \/ stdioread.i = 0
    THEN Err("deserialize", <<>>)
    ELSE LET key == [i |-> stdioread.i,
                     secret_coefficients |-> stdioread.material]
         IN IF GuardianSecretKey_validate(key, ep) THEN Ok(key)
            ELSE Err("validate", <<>>)

\* Lines 99-143.
load_guardian_secret_key(opt_i, opt_secret_key_path, dir, ep) ==
    IF opt_secret_key_path = None /\ opt_i = None
    THEN Err("need_i_or_path", <<>>)
    ELSE LET opened ==
                 in_file_stdioread(dir, opt_secret_key_path,
                     IF opt_i = None THEN None
                     ELSE Some(ArtifactFile_GuardianSecretKey(opt_i[1])))
         IN IF opened.kind # "Ok" THEN opened
            ELSE LET read == GuardianSecretKey_from_stdioread_validated(
                                 opened.value[1], ep)
                 IN IF read.kind # "Ok" THEN read
                    ELSE IF opt_i # None /\ opt_i[1] # read.value[1].i
                    THEN Err("mismatch", <<opt_i[1], read.value[1].i>>)
                    ELSE Ok(read.value[1])

\* A public key loader that trusts the file found for guardian i.
load_guardian_public_key_unmatched(opt_i, opt_public_key_path, dir, ep) ==
    IF opt_public_key_path = None /\ opt_i = None
    THEN Err("need_i_or_path", <<>>)
    ELSE LET opened ==
                 in_file_stdioread(dir, opt_public_key_path,
                     IF opt_i = None THEN None
                     ELSE Some(ArtifactFile_GuardianPublicKey(opt_i[1])))
         IN IF opened.kind # "Ok" THEN opened
            ELSE GuardianPublicKey_from_stdioread_validated(
                     opened.value[1], ep)
\* Lines 145-190.
load_guardian_public_key(opt_i, opt_public_key_path, dir, ep) ==
    IF opt_public_key_path = None /\ opt_i = None
    THEN Err("need_i_or_path", <<>>)
    ELSE LET opened ==
                 in_file_stdioread(dir, opt_public_key_path,
                     IF opt_i = None THEN None
                     ELSE Some(ArtifactFile_GuardianPublicKey(opt_i[1])))
         IN IF opened.kind # "Ok" THEN opened
            ELSE LET read == GuardianPublicKey_from_stdioread_validated(
                                 opened.value[1], ep)
                 IN IF read.kind # "Ok" THEN read
                    ELSE IF opt_i # None /\ opt_i[1] # read.value[1].i
                    THEN Err("mismatch", <<opt_i[1], read.value[1].i>>)
                    ELSE Ok(read.value[1])

(***************************************************************************)
(* The callers of the key loaders: an artifacts directory with any key     *)
(* files, a guardian number and a path that are each given or not.  A run  *)
(* of a subcommand loads one key, once.                                    *)
(***************************************************************************)
\* Key material found in files: a valid and an invalid value of each kind.
PublicKeyFileMaterials == {<<4>>, <<263>>}
SecretKeyFileMaterials == {<<3>>, <<131>>}

PublicKeyFiles ==
    {KeyFile("public", i, m) : i \in 0..(MaxN + 1), m \in PublicKeyFileMaterials}
SecretKeyFiles ==
    {KeyFile("secret", i, m) : i \in 0..(MaxN + 1), m \in SecretKeyFileMaterials}

FileNames ==
    {PathFile}
    \cup {ArtifactFile_GuardianPublicKey(i) : i \in 1..(MaxN + 1)}
    \cup {ArtifactFile_GuardianSecretKey(i) : i \in 1..(MaxN + 1)}

\* The directories: one content for the file at the path, one for the public
\* key artifacts and one for the secret key artifacts.
ArtifactsDirs ==
    {[name \in FileNames |->
         IF name.kind = "path" THEN at_path
         ELSE IF name.kind = "public" THEN public ELSE secret] :
        at_path \in {AbsentFile, MalformedFile} \cup PublicKeyFiles
                        \cup SecretKeyFiles,
        public \in {AbsentFile, MalformedFile} \cup PublicKeyFiles,
        secret \in {AbsentFile, MalformedFile} \cup SecretKeyFiles}

OptGuardianI == {None} \cup {Some(i) : i \in 1..(MaxN + 1)}
OptKeyPath == {None, Some("key.json")}

InitLoadKey ==
    /\ election_parameters \in ComputeParameters
    /\ guardian_public_keys = <<>>
    /\ joint_result = NotCalled
    /\ artifacts_dir \in ArtifactsDirs
    /\ key_call = NoKeyCall
    /\ key_result = NotCalled
    /\ NoVarying
    /\ NoCodec
    /\ NoLoad
    /\ NoKeygen
    /\ NoStandard

\* load_guardian_public_key(opt_i, &opt_path, &artifacts_dir, &election_parameters)
LoadPublicKey ==
    /\ key_call = NoKeyCall
    /\ \E opt_i \in OptGuardianI, opt_path \in OptKeyPath :
          /\ key_call' = [fn |-> "public", opt_i |-> opt_i, opt_path |-> opt_path]
          /\ key_result' = load_guardian_public_key(opt_i, opt_path,
                                artifacts_dir, election_parameters)
    /\ UNCHANGED <<artifacts_dir, compute_vars, varying_vars, codec_vars,
                   load_vars, keygen_vars, standard_vars>>

\* load_guardian_secret_key(opt_i, &opt_path, &artifacts_dir, &election_parameters)
LoadSecretKey ==
    /\ key_call = NoKeyCall
    /\ \E opt_i \in OptGuardianI, opt_path \in OptKeyPath :
          /\ key_call' = [fn |-> "secret", opt_i |-> opt_i, opt_path |-> opt_path]
          /\ key_result' = load_guardian_secret_key(opt_i, opt_path,
                                artifacts_dir, election_parameters)
    /\ UNCHANGED <<artifacts_dir, compute_vars, varying_vars, codec_vars,
                   load_vars, keygen_vars, standard_vars>>

NextLoadKey == LoadPublicKey \/ LoadSecretKey

SpecLoadKey == InitLoadKey /\ [][NextLoadKey]_vars

(***************************************************************************)
(* standard_parameters.rs: the two built-in FixedParameters and the lazy   *)
(* static STANDARD_PARAMETERS.  A hexadecimal literal is the sequence of   *)
(* its lines, each the sequence of its words; a BigUint of this size is    *)
(* the sequence of its hexadecimal words, most significant first.          *)
(***************************************************************************)
RECURSIVE hex_to_biguint(_)
\* Lines 179-185: drop the whitespace of the literal and read the digits.
hex_to_biguint(s) ==
    IF s = <<>> THEN <<>> ELSE Head(s) \o hex_to_biguint(Tail(s))

\* Lines 22-98: standard parameters, ElectionGuard v2.0.
make_standard_parameters_v2_0 ==
    [opt_version |-> Some(<<2, 0>>),
     generation_parameters |->
         [q_bits_total |-> 256,
          p_bits_total |-> 4096,
          p_bits_msb_fixed_1 |-> 256,
          p_middle_bits_source |-> "Ln2",
          p_bits_lsb_fixed_1 |-> 256],
     p |-> hex_to_biguint(<<
        <<"FFFFFFFF", "FFFFFFFF", "FFFFFFFF", "FFFFFFFF",
          "FFFFFFFF", "FFFFFFFF", "FFFFFFFF", "FFFFFFFF">>,
        <<"B17217F7", "D1CF79AB", "C9E3B398", "03F2F6AF",
          "40F34326", "7298B62D", "8A0D175B", "8BAAFA2B">>,
        <<"E7B87620", "6DEBAC98", "559552FB", "4AFA1B10",
          "ED2EAE35", "C1382144", "27573B29", "1169B825">>,
        <<"3E96CA16", "224AE8C5", "1ACBDA11", "317C387E",
          "B9EA9BC3", "B136603B", "256FA0EC", "7657F74B">>,
        <<"72CE87B1", "9D6548CA", "F5DFA6BD", "38303248",
          "655FA187", "2F20E3A2", "DA2D97C5", "0F3FD5C6">>,
        <<"07F4CA11", "FB5BFB90", "610D30F8", "8FE551A2",
          "EE569D6D", "FC1EFA15", "7D2E23DE", "1400B396">>,
        <<"17460775", "DB8990E5", "C943E732", "B479CD33",
          "CCCC4E65", "9393514C", "4C1A1E0B", "D1D6095D">>,
        <<"25669B33", "3564A337", "6A9C7F8A", "5E148E82",
          "074DB601", "5CFE7AA3", "0C480A54", "17350D2C">>,
        <<"955D5179", "B1E17B9D", "AE313CDB", "6C606CB1",
          "078F735D", "1B2DB31B", "5F50B518", "5064C18B">>,
        <<"4D162DB3", "B365853D", "7598A195", "1AE273EE",
          "5570B6C6", "8F969834", "96D4E6D3", "30AF889B">>,
        <<"44A02554", "731CDC8E", "A17293D1", "228A4EF9",
          "8D6F5177", "FBCF0755", "268A5C1F", "9538B982">>,
        <<"61AFFD44", "6B1CA3CF", "5E9222B8", "8C66D3C5",
          "422183ED", "C9942109", "0BBB16FA", "F3D949F2">>,
        <<"36E02B20", "CEE886B9", "05C128D5", "3D0BD2F9",
          "62136319", "6AF50302", "0060E499", "08391A0C">>,
        <<"57339BA2", "BEBA7D05", "2AC5B61C", "C4E9207C",
          "EF2F0CE2", "D7373958", "D7622658", "90445744">>,
        <<"FB5F2DA4", "B7510058", "92D35689", "0DEFE9CA",
          "D9B9D4B7", "13E06162", "A2D8FDD0", "DF2FD608">>,
        <<"FFFFFFFF", "FFFFFFFF", "FFFFFFFF", "FFFFFFFF",
          "FFFFFFFF", "FFFFFFFF", "FFFFFFFF", "FFFFFFFF">>>>),
     q |-> hex_to_biguint(<<
        <<"FFFFFFFF", "FFFFFFFF", "FFFFFFFF", "FFFFFFFF",
          "FFFFFFFF", "FFFFFFFF", "FFFFFFFF", "FFFFFF43">>>>),
     r |-> hex_to_biguint(<<
        <<"1">>,
        <<"00000000", "00000000", "00000000", "00000000",
          "00000000", "00000000", "00000000", "000000BC">>,
        <<"B17217F7", "D1CF79AB", "C9E3B398", "03F2F6AF",
          "40F34326", "7298B62D", "8A0D175B", "8BAB857A">>,
        <<"E8F42816", "5418806C", "62B0EA36", "355A3A73",
          "E0C74198", "5BF6A0E3", "130179BF", "2F0B43E3">>,
        <<"3AD86292", "3861B8C9", "F768C416", "9519600B",
          "AD06093F", "964B27E0", "2D868312", "31A9160D">>,
        <<"E48F4DA5", "3D8AB5E6", "9E386B69", "4BEC1AE7",
          "22D47579", "249D5424", "767C5C33", "B9151E07">>,
        <<"C5C11D10", "6AC446D3", "30B47DB5", "9D352E47",
          "A53157DE", "04461900", "F6FE360D", "B897DF53">>,
        <<"16D87C94", "AE71DAD0", "BE84B647", "C4BCF818",
          "C23A2D4E", "BB53C702", "A5C8062D", "19F5E9B5">>,
        <<"033A94F7", "FF732F54", "12971286", "9D97B8C9",
          "6C412921", "A9D86797", "70F499A0", "41C297CF">>,
        <<"F79D4C91", "49EB6CAF", "67B9EA3D", "C563D965",
          "F3AAD137", "7FF22DE9", "C3E62068", "DD0ED615">>,
        <<"1C37B4F7", "4634C2BD", "09DA912F", "D599F433",
          "3A8D2CC0", "05627DCA", "37BAD43E", "64A39631">>,
        <<"19C0BFE3", "4810A21E", "E7CFC421", "D53398CB",
          "C7A95B3B", "F585E5A0", "4B790E2F", "E1FE9BC2">>,
        <<"64FDA810", "9F6454A0", "82F5EFB2", "F37EA237",
          "AA29DF32", "0D6EA860", "C41A9054", "CCD24876">>,
        <<"C6253F66", "7BFB0139", "B5531FF3", "01899612",
          "02FD2B0D", "55A75272", "C7FD7334", "3F7899BC">>,
        <<"A0B36A4C", "470A64A0", "09244C84", "E77CEBC9",
          "2417D5BB", "13BF1816", "7D8033EB", "6C4DD787">>,
        <<"9FD4A7F5", "29FD4A7F", "529FD4A7", "F529FD4A",
          "7F529FD4", "A7F529FD", "4A7F529F", "D4A7F52A">>>>),
     g |-> hex_to_biguint(<<
        <<"36036FED", "214F3B50", "DC566D3A", "312FE413",
          "1FEE1C2B", "CE6D02EA", "39B477AC", "05F7F885">>,
        <<"F38CFE77", "A7E45ACF", "4029114C", "4D7A9BFE",
          "058BF2F9", "95D2479D", "3DDA618F", "FD910D3C">>,
        <<"4236AB2C", "FDD783A5", "016F7465", "CF59BBF4",
          "5D24A22F", "130F2D04", "FE93B2D5", "8BB9C1D1">>,
        <<"D27FC9A1", "7D2AF49A", "779F3FFB", "DCA22900",
          "C14202EE", "6C996160", "34BE35CB", "CDD3E7BB">>,
        <<"7996ADFE", "534B63CC", "A41E21FF", "5DC778EB",
          "B1B86C53", "BFBE9998", "7D7AEA07", "56237FB4">>,
        <<"0922139F", "90A62F2A", "A8D9AD34", "DFF799E3",
          "3C857A64", "68D001AC", "F3B681DB", "87DC4242">>,
        <<"755E2AC5", "A5027DB8", "1984F033", "C4D17837",
          "1F273DBB", "4FCEA1E6", "28C23E52", "759BC776">>,
        <<"5728035C", "EA26B44C", "49A65666", "889820A4",
          "5C33DD37", "EA4A1D00", "CB62305C", "D541BE1E">>,
        <<"8A92685A", "07012B1A", "20A746C3", "591A2DB3",
          "815000D2", "AACCFE43", "DC49E828", "C1ED7387">>,
        <<"466AFD8E", "4BF19355", "93B2A442", "EEC271C5",
          "0AD39F73", "3797A1EA", "11802A25", "57916534">>,
        <<"662A6B7E", "9A9E449A", "24C8CFF8", "09E79A4D",
          "806EB681", "119330E6", "C57985E3", "9B200B48">>,
        <<"93639FDF", "DEA49F76", "AD1ACD99", "7EBA1365",
          "7541E79E", "C57437E5", "04EDA9DD", "01106151">>,
        <<"6C643FB3", "0D6D58AF", "CCD28B73", "FEDA29EC",
          "12B01A5E", "B86399A5", "93A9D5F4", "50DE39CB">>,
        <<"92962C5E", "C6925348", "DB54D128", "FD99C14B",
          "457F883E", "C20112A7", "5A6A0581", "D3D80A3B">>,
        <<"4EF09EC8", "6F9552FF", "DA1653F1", "33AA2534",
          "983A6F31", "B0EE4697", "935A6B1E", "A2F75B85">>,
        <<"E7EBA151", "BA486094", "D68722B0", "54633FEC",
          "51CA3F29", "B31E77E3", "17B178B6", "B9D8AE0F">>>>)]

\* Lines 101-177: standard parameters, ElectionGuard v1.54.
make_standard_parameters_v1_54 ==
    [opt_version |-> Some(<<1, 54>>),
     generation_parameters |->
         [q_bits_total |-> 256,
          p_bits_total |-> 4096,
          p_bits_msb_fixed_1 |-> 256,
          p_middle_bits_source |-> "EulerMascheroniConstant",
          p_bits_lsb_fixed_1 |-> 256],
     p |-> hex_to_biguint(<<
        <<"FFFFFFFF", "FFFFFFFF", "FFFFFFFF", "FFFFFFFF",
          "FFFFFFFF", "FFFFFFFF", "FFFFFFFF", "FFFFFFFF">>,
        <<"93C467E3", "7DB0C7A4", "D1BE3F81", "0152CB56",
          "A1CECC3A", "F65CC019", "0C03DF34", "709AFFBD">>,
        <<"8E4B59FA", "03A9F0EE", "D0649CCB", "621057D1",
          "1056AE91", "32135A08", "E43B4673", "D74BAFEA">>,
        <<"58DEB878", "CC86D733", "DBE7BF38", "154B36CF",
          "8A96D156", "7899AAAE", "0C09D4C8", "B6B7B86F">>,
        <<"D2A1EA1D", "E62FF864", "3EC7C271", "82797722",
          "5E6AC2F0", "BD61C746", "961542A3", "CE3BEA5D">>,
        <<"B54FE70E", "63E6D09F", "8FC28658", "E80567A4",
          "7CFDE60E", "E741E5D8", "5A7BD469", "31CED822">>,
        <<"03655949", "64B83989", "6FCAABCC", "C9B31959",
          "C083F22A", "D3EE591C", "32FAB2C7", "448F2A05">>,
        <<"7DB2DB49", "EE52E018", "2741E538", "65F004CC",
          "8E704B7C", "5C40BF30", "4C4D8C4F", "13EDF604">>,
        <<"7C555302", "D2238D8C", "E11DF242", "4F1B66C2",
          "C5D238D0", "744DB679", "AF289048", "7031F9C0">>,
        <<"AEA1C4BB", "6FE9554E", "E528FDF1", "B05E5B25",
          "6223B2F0", "9215F371", "9F9C7CCC", "69DDF172">>,
        <<"D0D62342", "17FCC003", "7F18B93E", "F5389130",
          "B7A661E5", "C26E5421", "4068BBCA", "FEA32A67">>,
        <<"818BD307", "5AD1F5C7", "E9CC3D17", "37FB2817",
          "1BAF84DB", "B6612B78", "81C1A48E", "439CD03A">>,
        <<"92BF5222", "5A2B38E6", "542E9F72", "2BCE15A3",
          "81B5753E", "A8427633", "81CCAE83", "512B3051">>,
        <<"1B32E5E8", "D8036214", "9AD030AA", "BA5F3A57",
          "98BB22AA", "7EC1B6D0", "F17903F4", "E22D8407">>,
        <<"34AA8597", "3F79A93F", "FB82A75C", "47C03D43",
          "D2F9CA02", "D03199BA", "CEDDD453", "3A52566A">>,
        <<"FFFFFFFF", "FFFFFFFF", "FFFFFFFF", "FFFFFFFF",
          "FFFFFFFF", "FFFFFFFF", "FFFFFFFF", "FFFFFFFF">>>>),
     q |-> hex_to_biguint(<<
        <<"FFFFFFFF", "FFFFFFFF", "FFFFFFFF", "FFFFFFFF",
          "FFFFFFFF", "FFFFFFFF", "FFFFFFFF", "FFFFFF43">>>>),
     r |-> hex_to_biguint(<<
        <<"1">>,
        <<"00000000", "00000000", "00000000", "00000000",
          "00000000", "00000000", "00000000", "000000BC">>,
        <<"93C467E3", "7DB0C7A4", "D1BE3F81", "0152CB56",
          "A1CECC3A", "F65CC019", "0C03DF34", "709B8AF6">>,
        <<"A64C0CED", "CF2D559D", "A9D97F09", "5C3076C6",
          "86037619", "148D2C86", "C317102A", "FA214803">>,
        <<"1F04440A", "C0FF0C9A", "417A8921", "2512E760",
          "7B2501DA", "A4D38A2C", "1410C483", "6149E2BD">>,
        <<"B8C8260E", "627C4646", "963EFFE9", "E16E495D",
          "48BD215C", "6D8EC9D1", "667657A2", "A1C8506F">>,
        <<"2113FFAD", "19A6B2BC", "7C457604", "56719183",
          "309F874B", "C9ACE570", "FFDA877A", "A2B23A2D">>,
        <<"6F291C15", "54CA2EB1", "2F12CD00", "9B8B8734",
          "A64AD51E", "B893BD89", "1750B851", "62241D90">>,
        <<"8F0C9709", "879758E7", "E8233EAB", "3BF2D6AB",
          "53AFA32A", "A153AD66", "82E5A064", "8897C9BE">>,
        <<"18A0D50B", "ECE030C3", "432336AD", "9163E33F",
          "8E7DAF49", "8F14BB28", "52AFFA81", "4841EB18">>,
        <<"DD5F0E89", "516D5577", "76285C16", "071D2111",
          "94EE1C3F", "34642036", "AB886E3E", "C28882CE">>,
        <<"4003DEA3", "35B4D935", "BAE4B582", "35B9FB2B",
          "AB713C8F", "705A1C7D", "E4222020", "9D6BBCAC">>,
        <<"C4673186", "01565272", "E4A63E38", "E2499754",
          "AE493AC1", "A8E83469", "EEF35CA2", "7C271BC7">>,
        <<"92EEE211", "56E617B9", "22EA8F71", "3C22CF28",
          "2DC5D638", "5BB12868", "EB781278", "FA0AB2A8">>,
        <<"958FCCB5", "FFE2E5C3", "61FC1744", "20122B01",
          "63CA4A46", "308C8C46", "C91EA745", "7C136A7D">>,
        <<"9FD4A7F5", "29FD4A7F", "529FD4A7", "F529FD4A",
          "7F529FD4", "A7F529FD", "4A7F529F", "D4A7F52A">>>>),
     g |-> hex_to_biguint(<<
        <<"1D41E49C", "477E15EA", "EEF0C5E4", "AC08D4A4",
          "6C268CD3", "424FC01D", "13769BDB", "43673218">>,
        <<"587BC86C", "4C1448D0", "06A03699", "F3ABAE5F",
          "EB19E296", "F5D143CC", "5E4A3FC8", "9088C9F4">>,
        <<"523D166E", "E3AE9D5F", "B03C0BDD", "77ADD5C0",
          "17F6C55E", "2EC92C22", "6FEF5C6C", "1DF2E7C3">>,
        <<"6D90E7EA", "ADE09824", "1D340998", "3BCCD2B5",
          "379E9391", "FBC62F9F", "8D939D12", "08B16036">>,
        <<"7C134264", "12218959", "5EC85C8C", "DBE5F9D3",
          "07F46912", "C04932F8", "C16815A7", "6B4682BD">>,
        <<"6BDC0ED5", "2B00D8D3", "0F59C731", "D5A7FFAE",
          "8165D53C", "F96649AA", "C2B743DA", "56F14F19">>,
        <<"DACC5236", "F29B1AB9", "F9BEFC69", "697293D5",
          "DEAD8B5B", "F5DE9BAB", "6DE67C45", "719E5634">>,
        <<"4A3CBDF3", "609824B1", "B578E34E", "AEB6DD31",
          "90AB3571", "D6D671C5", "12282C1D", "A7BD36B4">>,
        <<"251D2584", "FADEA80B", "9E141423", "074DD9B5",
          "FB83ACBD", "EAD4C87A", "58FFF517", "F977A830">>,
        <<"80370A3B", "0CF98A1B", "C2978C47", "AAC29611",
          "FD6C40E2", "F9875C35", "D50443A9", "AA3F4961">>,
        <<"1DCD3A0D", "6FF3CB3F", "ACF31471", "BDB61860",
          "B92C594D", "4E46569B", "B39FEEAD", "FF1FD64C">>,
        <<"836A6D6D", "B85C6BA7", "241766B7", "AB56BF73",
          "9633B054", "147F7170", "921412E9", "48D9E474">>,
        <<"02D15BB1", "C2573186", "12C121C3", "6B80EB84",
          "33C08E7D", "0B7149E3", "AB0A8735", "A92EDCE8">>,
        <<"FF943E28", "A2DCEACF", "CC69EC31", "8909CB04",
          "7BE1C585", "8844B5AD", "44F22EEB", "289E4CC5">>,
        <<"54F7A5E2", "F3DEA026", "877FF928", "51816071",
          "CE028EB8", "68D965CC", "B2D2295A", "8C55BD1C">>,
        <<"070B39B0", "9AE06B37", "D29343B9", "D8997DC2",
          "44C468B9", "80970731", "736EE018", "BBADB987">>>>)]

\* A static initialised from the older parameter set.
STANDARD_PARAMETERS_initializer_v1_54 == make_standard_parameters_v1_54
\* Lines 16-19: the expression that initialises the static on first access.
STANDARD_PARAMETERS_initializer == make_standard_parameters_v2_0

\* The lazy static before and after its first access.
Uninitialised == [state |-> "uninitialised", value |-> <<>>]
Initialised(v) == [state |-> "initialised", value |-> <<v>>]

\* lazy_static's Deref: initialise on the first access, then the stored value.
deref(cell) ==
    IF cell.state = "uninitialised"
    THEN Initialised(STANDARD_PARAMETERS_initializer)
    ELSE cell

(***************************************************************************)
(* The users of the standard parameters: any sequence of accesses to the   *)
(* static and of calls of the two factories.                               *)
(***************************************************************************)
\* Largest number of accesses and calls in a run.
MaxCalls == 4

Obtained(op, v) == [op |-> op, value |-> v]

InitStandard ==
    /\ STANDARD_PARAMETERS = Uninitialised
    /\ accesses = <<>>
    /\ NoCompute
    /\ NoVarying
    /\ NoCodec
    /\ NoLoad
    /\ NoKeyLoad
    /\ NoKeygen

\* &*STANDARD_PARAMETERS
AccessStatic ==
    /\ Len(accesses) < MaxCalls
    /\ STANDARD_PARAMETERS' = deref(STANDARD_PARAMETERS)
    /\ accesses' = Append(accesses,
                          Obtained("STANDARD_PARAMETERS",
                                   deref(STANDARD_PARAMETERS).value[1]))
    /\ UNCHANGED <<compute_vars, varying_vars, codec_vars, load_vars,
                   key_vars, keygen_vars>>

\* make_standard_parameters_v2_0()
CallMakeV2_0 ==
    /\ Len(accesses) < MaxCalls
    /\ accesses' = Append(accesses,
                          Obtained("make_standard_parameters_v2_0",
                                   make_standard_parameters_v2_0))
    /\ UNCHANGED <<STANDARD_PARAMETERS, compute_vars, varying_vars,
                   codec_vars, load_vars, key_vars, keygen_vars>>

\* make_standard_parameters_v1_54()
CallMakeV1_54 ==
    /\ Len(accesses) < MaxCalls
    /\ accesses' = Append(accesses,
                          Obtained("make_standard_parameters_v1_54",
                                   make_standard_parameters_v1_54))
    /\ UNCHANGED <<STANDARD_PARAMETERS, compute_vars, varying_vars,
                   codec_vars, load_vars, key_vars, keygen_vars>>

NextStandard == AccessStatic \/ CallMakeV2_0 \/ CallMakeV1_54

SpecStandard == InitStandard /\ [][NextStandard]_vars

(***************************************************************************)
(* guardian_key_generate.rs: GuardianSecretKeyGenerate::do_it.  The run    *)
(* reads the election parameters file, checks self.i, generates a secret   *)
(* key from the csprng and writes the secret and the public key.           *)
(***************************************************************************)
\* () of Result<()>
Unit == <<>>

\* GuardianSecretKey::generate: k secret coefficients drawn from the csprng,
\* for guardian i.
GuardianSecretKey_generate(csprng, ep, i) ==
    [i |-> i,
     secret_coefficients |->
         [j \in 1..ep.varying_parameters.k |-> csprng.draws[j]]]

\* GuardianSecretKey::make_public_key: the commitments g^a_j mod p.
make_public_key(secret_key, ep) ==
    [i |-> secret_key.i,
     coefficient_commitments |->
         [j \in DOMAIN secret_key.secret_coefficients |->
             ModPow(ep.fixed_parameters.g, secret_key.secret_coefficients[j],
                    ep.fixed_parameters.p)]]

\* ArtifactsDir::out_file_write: one write of content to a file, which
\* succeeds or fails.
out_file_write(artifact_file_, content, ok) ==
    [file |-> artifact_file_, content |-> content, ok |-> ok]

\* A run without the check of the guardian number.
index_check_none(self, varying_parameters_) == TRUE
\* Line 59: self.i < varying_parameters.n
index_check(self, varying_parameters_) == self.i < varying_parameters_.n

\* Lines 48-89.  The result of the run and the writes it made, in order.
\* failing_write names the write that fails, if any.
do_it(self, file, csprng, failing_write) ==
    LET loaded == load_election_parameters(file)
    IN IF ~csprng.available
       THEN [result |-> Err("csprng", <<>>), written |-> <<>>]
       ELSE IF loaded.kind # "Ok"
       THEN [result |-> loaded, written |-> <<>>]
       ELSE LET ep == loaded.value[1]
                secret_key == GuardianSecretKey_generate(csprng, ep, self.i)
                public_key == make_public_key(secret_key, ep)
                secret_write ==
                    out_file_write(ArtifactFile_GuardianSecretKey(self.i),
                                   secret_key, failing_write # "secret")
                public_write ==
                    out_file_write(ArtifactFile_GuardianPublicKey(self.i),
                                   public_key, failing_write # "public")
            IN IF ~index_check(self, ep.varying_parameters)
               THEN [result |-> Err("index", <<self.i,
                                                ep.varying_parameters.n>>),
                     written |-> <<>>]
               ELSE IF ~secret_write.ok
               THEN [result |-> Err("write", <<>>),
                     written |-> <<secret_write>>]
               ELSE IF ~public_write.ok
               THEN [result |-> Err("write", <<>>),
                     written |-> <<secret_write, public_write>>]
               ELSE [result |-> Ok(Unit),
                     written |-> <<secret_write, public_write>>]

(***************************************************************************)
(* The runs of the subcommand: any election parameters file, any u16       *)
(* guardian number on the command line, any draws of the csprng, and a     *)
(* failure of either write.  A run calls do_it once.                       *)
(***************************************************************************)
\* Secret coefficients that the csprng may yield.
SecretCoefficients == {3, 77}

Csprngs ==
    {[available |-> FALSE, draws |-> [j \in 1..(MaxN + 1) |-> 3]]}
    \cup [available : {TRUE}, draws : [1..(MaxN + 1) -> SecretCoefficients]]

Subcommands == [i : 0..(MaxN + 1)]

InitKeygen ==
    /\ artifact_file \in ArtifactFiles
    /\ load_result = NotCalled
    /\ subcommand \in Subcommands
    /\ written = <<>>
    /\ do_it_result = NotCalled
    /\ NoCompute
    /\ NoVarying
    /\ NoCodec
    /\ NoKeyLoad
    /\ NoStandard

\* self.do_it(&mut subcommand_helper)
DoIt ==
    /\ do_it_result = NotCalled
    /\ \E csprng \in Csprngs, failing_write \in {"none", "secret", "public"} :
          LET run == do_it(subcommand, artifact_file, csprng, failing_write)
          IN /\ do_it_result' = run.result
             /\ written' = run.written
    /\ UNCHANGED <<subcommand, compute_vars, varying_vars, codec_vars,
                   load_vars, key_vars, standard_vars>>

NextKeygen == DoIt

SpecKeygen == InitKeygen /\ [][NextKeygen]_vars

(***************************************************************************)
(* Properties of JointElectionPublicKey::compute.                          *)
(***************************************************************************)
Called == joint_result.kind # "NotCalled"

AllKeysValid ==
    \A j \in DOMAIN guardian_public_keys :
        GuardianPublicKey_validate(guardian_public_keys[j], election_parameters)

SuppliedIndices == {guardian_public_keys[j].i : j \in DOMAIN guardian_public_keys}

Occurrences(i) ==
    Cardinality({j \in DOMAIN guardian_public_keys : guardian_public_keys[j].i = i})

\* Every index of 1..n is supplied exactly once and no other index is.
ExactlyOnceEach ==
    /\ \A i \in 1..election_parameters.varying_parameters.n : Occurrences(i) = 1
    /\ \A i \in SuppliedIndices : i \in 1..election_parameters.varying_parameters.n

\* The rearrangements of a sequence.
PermutationsOf(s) ==
    {[j \in DOMAIN s |-> s[f[j]]] :
        f \in {h \in [DOMAIN s -> DOMAIN s] :
                  \A a, b \in DOMAIN s : h[a] = h[b] => a = b}}

\* C1: compute succeeds if and only if every supplied key passes validate and
\* the supplied indices are exactly 1..n, each once; every other input ends in
\* one of the three errors, and an error carries no joint key.
C1_SuccessIffValidAndComplete ==
    Called =>
        /\ (joint_result.kind = "Ok") <=> (AllKeysValid /\ ExactlyOnceEach)
        /\ joint_result.kind = "Ok" => Len(joint_result.value) = 1
        /\ joint_result.kind # "Ok" =>
              /\ joint_result.kind \in {"validate", "duplicate", "missing"}
              /\ joint_result.value = <<>>

\* C1's case: a complete valid set of at least two keys was accepted.
C1_Witness ==
    /\ joint_result.kind = "Ok"
    /\ Len(guardian_public_keys) >= 2

\* C2: for a complete valid key set, compute returns the same joint key for
\* every rearrangement of the supplied keys.
C2_OrderIndependent ==
    joint_result.kind = "Ok" =>
        \A perm \in PermutationsOf(guardian_public_keys) :
            compute(election_parameters, perm) = joint_result

\* C2's case: three keys with different key material, supplied out of order.
C2_Witness ==
    /\ joint_result.kind = "Ok"
    /\ Len(guardian_public_keys) = 3
    /\ guardian_public_keys[1].i = 3
    /\ public_key_k0(guardian_public_keys[1]) # public_key_k0(guardian_public_keys[2])

\* C3: for valid, duplicate-free keys that do not cover 1..n, compute fails
\* with a missing-indices error whose message enumerates the missing 1-based
\* guardian indices, all of them and only them, in ascending order.
C3_MissingNamesOneBasedIndices ==
    (/\ Called
     /\ AllKeysValid
     /\ \A i \in SuppliedIndices : Occurrences(i) = 1
     /\ SuppliedIndices # 1..election_parameters.varying_parameters.n)
    => joint_result =
          Err("missing",
              ascending((1..election_parameters.varying_parameters.n)
                            \ SuppliedIndices,
                        1, election_parameters.varying_parameters.n))

\* The indices supplied more than once.
RepeatedIndices == {i \in SuppliedIndices : Occurrences(i) > 1}

\* C4 as stated: when one index is supplied twice by keys that are themselves
\* valid, compute fails with the duplicate-index error naming it, whatever the
\* other supplied keys are.
C4_DuplicateRegardlessOfOtherKeys ==
    \A d \in SuppliedIndices :
        (/\ Called
         /\ RepeatedIndices = {d}
         /\ Occurrences(d) = 2
         /\ \A j \in DOMAIN guardian_public_keys :
               guardian_public_keys[j].i = d =>
                   GuardianPublicKey_validate(guardian_public_keys[j],
                                              election_parameters))
        => joint_result = Err("duplicate", <<d>>)

\* C4 amended: when every supplied key passes validate and one index is
\* supplied twice, compute fails with the duplicate-index error naming that
\* index, whichever other indices are supplied or missing.
C4_DuplicateWhenAllValid ==
    \A d \in SuppliedIndices :
        (/\ Called
         /\ AllKeysValid
         /\ RepeatedIndices = {d}
         /\ Occurrences(d) = 2)
        => joint_result = Err("duplicate", <<d>>)

\* C4's case: valid keys, index 2 supplied twice after index 1, index 3 missing.
C4_Witness ==
    /\ joint_result.kind = "duplicate"
    /\ AllKeysValid
    /\ election_parameters.varying_parameters.n = 3
    /\ Len(guardian_public_keys) = 3
    /\ guardian_public_keys[1].i = 1
    /\ RepeatedIndices = {2}

(***************************************************************************)
(* Properties of VaryingParameters.                                        *)
(***************************************************************************)
\* C5: validate succeeds exactly when 1 <= n, 1 <= k and k <= n: for every n
\* in 1..MaxGuardians and k in 1..n it succeeds, for k = n + 1 and for
\* n = k = 0 it fails, whatever the date and info strings are.
C5_ValidateIffOneLeKLeN ==
    varying_call.kind = "validate" =>
        LET n == varying_parameters.n
            k == varying_parameters.k
            ok == varying_call.named[1].kind = "Ok"
        IN /\ ok <=> (1 <= n /\ 1 <= k /\ k <= n)
           /\ (n \in 1..MaxGuardians /\ k \in 1..n) => ok
           /\ k = n + 1 => ~ok
           /\ (n = 0 /\ k = 0) => ~ok

\* C5's case: n = k = 50 with a date and an info string was accepted.
C5_Witness ==
    /\ varying_call.kind = "validate"
    /\ varying_parameters.n = 50
    /\ varying_parameters.k = 50
    /\ varying_parameters.date # ""
    /\ varying_parameters.info # ""
    /\ varying_call.named[1].kind = "Ok"

\* C6: is_valid_guardian_i(i) returns true exactly when 1 <= i <= n (false for
\* i = 0, for i = n + 1 and for every i when n = 0), and a call of it leaves
\* the parameters as they were.
C6_IsValidGuardianIExact ==
    /\ [](varying_call.kind = "is_valid_guardian_i" =>
            LET i == varying_call.value[1]
                n == varying_parameters.n
                ret == varying_call.named[1]
            IN /\ ret \in BOOLEAN
               /\ ret <=> (1 <= i /\ i <= n)
               /\ i = 0 => ~ret
               /\ i = n + 1 => ~ret
               /\ n = 0 => ~ret)
    /\ [][varying_call'.kind = "is_valid_guardian_i" =>
            varying_parameters' = varying_parameters]_vars

\* C6's case: the largest valid index, i = n = 50, was accepted.
C6_Witness ==
    /\ varying_call.kind = "is_valid_guardian_i"
    /\ varying_call.value[1] = 50
    /\ varying_parameters.n = 50
    /\ varying_call.named[1] = TRUE

(***************************************************************************)
(* Properties of the encodings of JointElectionPublicKey.                  *)
(***************************************************************************)
\* Whether x passes JointElectionPublicKey::validate.
PassesValidate(x) ==
    JointElectionPublicKey_validate(x, election_parameters).kind = "Ok"

\* C7: from_stdioread_validated never returns a key that fails validate; a
\* well-formed stream whose integer is not a valid element is rejected with
\* the validation error, and a malformed stream with a reading error.
C7_ReadNeverReturnsInvalid ==
    read_result.kind # "NotCalled" =>
        /\ read_result.kind = "Ok" => PassesValidate(read_result.value[1])
        /\ \A x \in 0..MaxJointKey :
              (stdio = to_stdiowrite(x, <<>>) /\ ~PassesValidate(x)) =>
                  read_result.kind = "JointElectionPublicKey is not valid mod p"
        /\ \A f \in ForeignStreams :
              (stdio = f.text /\ ~PassesValidate(f.value)) =>
                  read_result.kind = "JointElectionPublicKey is not valid mod p"
        /\ stdio \in MalformedStreams =>
              read_result.kind = "Reading JointElectionPublicKey"

\* C7's case: the written encoding of p itself was read and rejected.
C7_Witness ==
    /\ joint_key = 263
    /\ stdio = to_stdiowrite(joint_key, <<>>)
    /\ read_result.kind = "JointElectionPublicKey is not valid mod p"

\* C8: for every joint key x that passes validate, reading what to_stdiowrite
\* wrote for x succeeds and returns x, and what was written ends with a newline.
C8_RoundTrip ==
    (/\ read_result.kind # "NotCalled"
     /\ stdio = to_stdiowrite(joint_key, <<>>)
     /\ PassesValidate(joint_key))
    => /\ read_result = Ok(joint_key)
       /\ stdio[Len(stdio)] = "\n"

\* C8's case: the key 26, written as "1A" and a newline, was read back.
C8_Witness ==
    /\ joint_key = 26
    /\ stdio = <<"\"", "1", "A", "\"", "\n">>
    /\ read_result = Ok(26)

RECURSIVE BigEndianValue(_, _)
\* The integer that a big-endian byte sequence denotes, continuing from acc.
BigEndianValue(bytes, acc) ==
    IF bytes = <<>> THEN acc
    ELSE BigEndianValue(Tail(bytes), 256 * acc + Head(bytes))

\* The number of bytes of p: the least L with p < 256^L.
ByteLengthOfP ==
    CHOOSE L \in 1..4 :
        /\ toy_parameters.p < 256 ^ L
        /\ toy_parameters.p >= 256 ^ (L - 1)

\* C9: for every valid joint key, to_be_bytes_len_p returns as many bytes as p
\* has, holding the key's integer big-endian, padded with zero bytes on the left.
C9_FixedLengthBigEndian ==
    (/\ bytes_result.kind = "Ok"
     /\ PassesValidate(joint_key))
    => LET bytes == bytes_result.value[1]
       IN /\ Len(bytes) = ByteLengthOfP
          /\ \A j \in DOMAIN bytes : bytes[j] \in 0..255
          /\ BigEndianValue(bytes, 0) = joint_key

\* C9's case: the key 4 was encoded as the two bytes 0, 4.
C9_Witness ==
    /\ joint_key = 4
    /\ bytes_result = Ok(<<0, 4>>)

(***************************************************************************)
(* Properties of load_election_parameters.                                 *)
(***************************************************************************)
\* C10: load_election_parameters returns election parameters only when the
\* file was read, from_bytes decoded it and validate succeeded on the decoded
\* value, which is the value returned; when reading, decoding or validation
\* fails it returns an error and no parameters.
C10_LoadReturnsOnlyValidated ==
    load_result.kind # "NotCalled" =>
        LET decoded == ElectionParameters_from_bytes(artifact_file.bytes)
            loaded == artifact_file.state = "readable" /\ decoded.kind = "Ok"
            valid == /\ loaded
                     /\ ElectionParameters_validate(decoded.value[1]).kind = "Ok"
        IN /\ load_result.kind = "Ok" =>
                 /\ valid
                 /\ load_result.value = decoded.value
                 /\ load_result.value[1].fixed_parameters = toy_parameters
                 /\ 1 <= load_result.value[1].varying_parameters.k
                 /\ load_result.value[1].varying_parameters.k
                        <= load_result.value[1].varying_parameters.n
           /\ ~valid =>
                 /\ load_result.kind # "Ok"
                 /\ load_result.value = <<>>

\* C10's case: a file holding valid parameters with n = 3, k = 2 was loaded.
C10_Witness ==
    /\ load_result.kind = "Ok"
    /\ load_result.value[1].varying_parameters.n = 3
    /\ load_result.value[1].varying_parameters.k = 2
    /\ artifact_file.state = "readable"

(***************************************************************************)
(* Further properties of JointElectionPublicKey::compute.                  *)
(***************************************************************************)
\* Whether the key at position j passes GuardianPublicKey::validate.
KeyValidAt(j) ==
    GuardianPublicKey_validate(guardian_public_keys[j], election_parameters)

\* C14: every supplied key is validated before any duplicate or completeness
\* check: when some key fails validate, compute returns the validation error
\* of the first failing key in input order, whatever indices are repeated or
\* omitted; so `seen` is only ever indexed with i-1 for an i in 1..n.
C14_ValidationComesFirst ==
    Called =>
        /\ ~AllKeysValid =>
              \E j \in DOMAIN guardian_public_keys :
                  /\ ~KeyValidAt(j)
                  /\ \A l \in 1..(j - 1) : KeyValidAt(l)
                  /\ joint_result = Err("validate", <<j>>)
        /\ joint_result.kind # "panic"
        /\ \A ix \in seen_indexed(election_parameters, guardian_public_keys) :
              /\ ix \in 0..(election_parameters.varying_parameters.n - 1)
              /\ \E i \in 1..election_parameters.varying_parameters.n :
                    ix = i - 1

\* C14's case: two valid keys repeat index 1, index 3 is omitted, and the third
\* key, the only invalid one, decides the error.
C14_Witness ==
    /\ joint_result = Err("validate", <<3>>)
    /\ election_parameters.varying_parameters.n = 3
    /\ Len(guardian_public_keys) = 3
    /\ guardian_public_keys[1].i = 1
    /\ guardian_public_keys[2].i = 1
    /\ KeyValidAt(1) /\ KeyValidAt(2)

\* The positions at which a key repeats the index of an earlier key.
RepeatPositions ==
    {j \in DOMAIN guardian_public_keys :
        \E l \in 1..(j - 1) :
            guardian_public_keys[l].i = guardian_public_keys[j].i}

\* C15: for an all-valid input that repeats an index, also when it omits
\* another, compute returns the duplicate-index error for the first index that
\* repeats in input order, and never the missing-indices error.
C15_DuplicateBeforeMissing ==
    (Called /\ AllKeysValid /\ RepeatPositions # {}) =>
        /\ \E j \in RepeatPositions :
              /\ \A l \in RepeatPositions : j <= l
              /\ joint_result = Err("duplicate", <<guardian_public_keys[j].i>>)
        /\ joint_result.kind # "missing"

\* C15's case: valid keys for guardians 3, 1, 3 of three; guardian 2 is omitted.
C15_Witness ==
    /\ joint_result = Err("duplicate", <<3>>)
    /\ AllKeysValid
    /\ election_parameters.varying_parameters.n = 3
    /\ Len(guardian_public_keys) = 3
    /\ guardian_public_keys[1].i = 3
    /\ guardian_public_keys[2].i = 1
    /\ 2 \notin SuppliedIndices

\* C16: every joint key that compute returns passes
\* JointElectionPublicKey::validate against the same election parameters.
C16_ComputedKeyValidates ==
    joint_result.kind = "Ok" =>
        JointElectionPublicKey_validate(joint_result.value[1],
                                        election_parameters).kind = "Ok"

\* C16's case: a joint key was computed from two keys, the first with element 256.
C16_Witness ==
    /\ joint_result.kind = "Ok"
    /\ election_parameters.varying_parameters.n = 2
    /\ public_key_k0(guardian_public_keys[1]) = 256

\* The accumulator after the first j keys: 1, then acc^(K_j,0) mod p.
Accumulator[j \in 0..MaxKeys + 1] ==
    IF j = 0 THEN 1
    ELSE ModPow(Accumulator[j - 1],
                IF j <= Len(guardian_public_keys)
                THEN public_key_k0(guardian_public_keys[j]) ELSE 1,
                election_parameters.fixed_parameters.p)

\* The key lists with the indices of the supplied keys, in the same order, and
\* any valid single-element key material.
OtherKeyMaterial ==
    {[j \in DOMAIN guardian_public_keys |->
         [i |-> guardian_public_keys[j].i, coefficient_commitments |-> m[j]]] :
        m \in [DOMAIN guardian_public_keys -> {<<4>>, <<256>>}]}

\* C17: on success compute returns the left fold acc := acc^(K_i,0) mod p from
\* acc = 1, which is 1 for every complete valid key set, so that complete valid
\* key sets with other key material yield the same joint key.
C17_FoldYieldsIdentity ==
    joint_result.kind = "Ok" =>
        /\ joint_result.value[1] = Accumulator[Len(guardian_public_keys)]
        /\ joint_result.value[1] = 1
        /\ \A other \in OtherKeyMaterial :
              compute(election_parameters, other) = joint_result

\* C17's case: three keys, two with element 256 and one with element 4.
C17_Witness ==
    /\ joint_result = Ok(1)
    /\ Len(guardian_public_keys) = 3
    /\ public_key_k0(guardian_public_keys[1]) = 256
    /\ public_key_k0(guardian_public_keys[2]) = 256
    /\ public_key_k0(guardian_public_keys[3]) = 4

(***************************************************************************)
(* Properties of the guardian key loaders.                                 *)
(***************************************************************************)
\* What from_stdioread_validated of the called loader makes of a file.
ValidatedKeyIn(file) ==
    IF key_call.fn = "public"
    THEN GuardianPublicKey_from_stdioread_validated(file, election_parameters)
    ELSE GuardianSecretKey_from_stdioread_validated(file, election_parameters)

\* The file that the called loader reads: the one at the path when a path is
\* given, else the artifact file of guardian opt_i.
FileRead ==
    IF key_call.opt_path # None THEN artifacts_dir[PathFile]
    ELSE artifacts_dir[[kind |-> key_call.fn, i |-> key_call.opt_i[1]]]

\* C11: both key loaders fail when neither a guardian number nor a path is
\* given; when a guardian number i is given they fail whenever the loaded and
\* validated key's own number differs from i; they return a key only when it
\* passed from_stdioread_validated and its number equals the requested one.
C11_KeyLoadersMatchIndex ==
    key_call # NoKeyCall =>
        /\ (key_call.opt_i = None /\ key_call.opt_path = None)
              => key_result = Err("need_i_or_path", <<>>)
        /\ (key_call.opt_i # None \/ key_call.opt_path # None)
              => /\ (/\ key_call.opt_i # None
                     /\ ValidatedKeyIn(FileRead).kind = "Ok"
                     /\ ValidatedKeyIn(FileRead).value[1].i # key_call.opt_i[1])
                        => key_result.kind \notin {"Ok", "NotCalled"}
                 /\ key_result.kind = "Ok"
                        => /\ ValidatedKeyIn(FileRead) = key_result
                           /\ key_call.opt_i # None
                                 => key_result.value[1].i = key_call.opt_i[1]
        /\ key_result.kind = "Ok"
              => \E name \in DOMAIN artifacts_dir :
                     ValidatedKeyIn(artifacts_dir[name]) = key_result

\* C11's case: guardian 1 is requested with a path whose file holds the valid
\* secret key of guardian 2, and the loader reports the mismatch.
C11_Witness ==
    /\ key_call # NoKeyCall
    /\ key_call.fn = "secret"
    /\ key_call.opt_i = Some(1)
    /\ key_call.opt_path # None
    /\ ValidatedKeyIn(artifacts_dir[PathFile]).kind = "Ok"
    /\ artifacts_dir[PathFile].i = 2
    /\ key_result = Err("mismatch", <<1, 2>>)

(***************************************************************************)
(* Properties of the standard parameters.                                  *)
(***************************************************************************)
FixedParametersFields ==
    {"opt_version", "generation_parameters", "p", "q", "r", "g"}

\* C13: at every access STANDARD_PARAMETERS equals, field for field, the
\* result of make_standard_parameters_v2_0(), tagged [2,0]; the v1.54 factory
\* returns a set tagged [1,54]; each factory returns the same value on every
\* call.
C13_StaticIsV2_0 ==
    /\ \A a \in DOMAIN accesses :
          /\ DOMAIN accesses[a].value = FixedParametersFields
          /\ accesses[a].op = "STANDARD_PARAMETERS" =>
                /\ \A b \in DOMAIN accesses :
                      accesses[b].op = "make_standard_parameters_v2_0" =>
                          \A f \in FixedParametersFields :
                              accesses[a].value[f] = accesses[b].value[f]
                /\ \A f \in FixedParametersFields :
                      accesses[a].value[f] = make_standard_parameters_v2_0[f]
                /\ accesses[a].value.opt_version = Some(<<2, 0>>)
          /\ accesses[a].op = "make_standard_parameters_v2_0" =>
                accesses[a].value.opt_version = Some(<<2, 0>>)
          /\ accesses[a].op = "make_standard_parameters_v1_54" =>
                accesses[a].value.opt_version = Some(<<1, 54>>)
          /\ \A b \in DOMAIN accesses :
                accesses[a].op = accesses[b].op =>
                    accesses[a].value = accesses[b].value
    /\ STANDARD_PARAMETERS # Uninitialised =>
          STANDARD_PARAMETERS = Initialised(make_standard_parameters_v2_0)

\* C13's case: the static was read twice, around a call of each factory.
C13_Witness ==
    /\ Len(accesses) = 4
    /\ accesses[1].op = "STANDARD_PARAMETERS"
    /\ accesses[2].op = "make_standard_parameters_v1_54"
    /\ accesses[3].op = "make_standard_parameters_v2_0"
    /\ accesses[4].op = "STANDARD_PARAMETERS"
    /\ accesses[2].value # accesses[3].value

(***************************************************************************)
(* Properties of the guardian key generation subcommand.                   *)
(***************************************************************************)
\* What load_election_parameters makes of the election parameters file.
LoadedParameters == load_election_parameters(artifact_file)

\* do_it ran as far as the election parameters.
RanWithCsprng == do_it_result.kind \notin {"NotCalled", "csprng"}

\* do_it generated a key pair: it went on to write the secret key.
KeyGenerated == written # <<>>

\* C18: the subcommand generates a key pair for guardian number i exactly when
\* i is a valid guardian index of the loaded election parameters, 1 <= i <= n:
\* it rejects i = 0 and i > n and accepts i = n, so every persisted guardian
\* key has an index in 1..n.
C18_GeneratesIffValidGuardianI ==
    (RanWithCsprng /\ LoadedParameters.kind = "Ok") =>
        /\ KeyGenerated <=>
              is_valid_guardian_i(LoadedParameters.value[1].varying_parameters,
                                  subcommand.i)
        /\ \A w \in DOMAIN written :
              written[w].content.i
                  \in 1..LoadedParameters.value[1].varying_parameters.n

\* C19: no key artifact is written unless the election parameters were loaded
\* and validated and the check of the guardian number passed; when either
\* fails the run returns an error having written nothing; on the success path
\* the secret key is written before the public key derived from it.
C19_WritesFollowValidation ==
    do_it_result.kind # "NotCalled" =>
        /\ written # <<>> =>
              /\ LoadedParameters.kind = "Ok"
              /\ ElectionParameters_validate(LoadedParameters.value[1]).kind
                     = "Ok"
              /\ subcommand.i
                     < LoadedParameters.value[1].varying_parameters.n
        /\ (\/ LoadedParameters.kind # "Ok"
            \/ ~(subcommand.i
                     < LoadedParameters.value[1].varying_parameters.n))
              => written = <<>> /\ do_it_result.kind # "Ok"
        /\ \A w \in DOMAIN written :
              written[w].file.kind = "public" =>
                  /\ w = 2
                  /\ written[1].file.kind = "secret"
                  /\ written[1].ok
                  /\ written[2].content
                         = make_public_key(written[1].content,
                                           LoadedParameters.value[1])
        /\ do_it_result.kind = "Ok" =>
              /\ Len(written) = 2
              /\ written[1].file = ArtifactFile_GuardianSecretKey(subcommand.i)
              /\ written[2].file = ArtifactFile_GuardianPublicKey(subcommand.i)
              /\ written[1].ok /\ written[2].ok

\* C19's case: a run for guardian 1 of 3 wrote both keys, next to runs that
\* stopped at the parameters or at the guardian number.
C19_Witness ==
    /\ do_it_result = Ok(Unit)
    /\ subcommand.i = 1
    /\ LoadedParameters.value[1].varying_parameters.n = 3
    /\ Len(written) = 2
    /\ written[1].content.secret_coefficients[1] = 77
    /\ written[2].content.coefficient_commitments[1] = ModPow(4, 77, 263)

=============================================================================
